---- MODULE Spec2Model ----
(***************************************************************************)
(* HashMap<KeyType, ValueType, Hash> of src/hash_map.h (the last revision  *)
(* in the file, lines 655-863): a hash table with separate chaining.       *)
(*   all     : std::list<pair<const Key, Value>>, the record store         *)
(*   table   : std::vector<std::list<ElemIter>>, the bucket index          *)
(*   allSize : size_t                                                      *)
(* A list node is modelled by a record [id, key, val]; a list iterator is  *)
(* the id of the node it designates, and End is the end() sentinel.        *)
(* The earlier revisions kept in src/hash_map.h (lines 1-653) and          *)
(* src/unnamed/part_000 have the same find, insert, operator[], at, erase  *)
(* and clear; they differ in the constructors, the copy constructor and    *)
(* operator=, which are modelled here as the last revision has them.       *)
(***************************************************************************)
EXTENDS Integers, Sequences, FiniteSets, TLC

\* ---------------------------------------------------------------- bounds
MaxKey == 2        \* keys are 1..MaxKey
MaxVal == 1        \* values are 0..MaxVal, 0 being ValueType()
MaxLen == 2        \* longest range / initializer list given to a constructor

Keys == 1 .. MaxKey
Vals == 0 .. MaxVal

\* ------------------------------------------------------ program constants
RESIZE_RATIO == 2

DefaultValue == 0

\* end(): the iterator that designates no node.
End == <<>>

\* "no key / no value": what a lookup that finds nothing has to show.
NoVal == 0 - 1

\* The hashing policy handed to the constructor: any deterministic function
\* of the key.  This one (1, 3, 6, 10, ...) makes keys 1 and 2 share a bucket
\* of 1 or 2 buckets and separates them for 4, 6 and 8 buckets; keys 3 and 4
\* share a bucket of 1, 2 or 4 buckets.
hasher(key) == (key * (key + 1)) \div 2

\* ------------------------------------------------------------- helpers
Pairs == [key : Keys, val : Vals]

RECURSIVE SeqsUpTo(_)
SeqsUpTo(n) ==
    IF n = 0 THEN {<<>>}
    ELSE LET shorter == SeqsUpTo(n - 1)
         IN  shorter \cup {Append(s, p) : s \in {x \in shorter : Len(x) = n - 1}, p \in Pairs}

Inputs == SeqsUpTo(MaxLen)

Max(a, b) == IF a >= b THEN a ELSE b

Ids(lst) == {lst[i].id : i \in 1 .. Len(lst)}

\* The node a fresh allocation returns.  Addresses are arbitrary, so a node is
\* named <<key, n>> by the key it is allocated for and the lowest serial n no
\* live node of that key has: tables that differ only in their addresses are
\* one state.  The key of a node is read from the node (First), not its name.
NewId(lst, key) ==
    <<key, CHOOSE n \in 0 .. Len(lst) :
               /\ <<key, n>> \notin Ids(lst)
               /\ \A j \in 0 .. n - 1 : <<key, j>> \in Ids(lst)>>

\* it->first and it->second for an iterator into `lst`.
Node(lst, it) == CHOOSE i \in 1 .. Len(lst) : lst[i].id = it

Valid(lst, it) == it \in Ids(lst)

First(lst, it) == IF Valid(lst, it) THEN lst[Node(lst, it)].key ELSE NoVal

Second(lst, it) == IF Valid(lst, it) THEN lst[Node(lst, it)].val ELSE NoVal

\* std::list::push_front / emplace_front of (key, val); the new node is begin().
PushFront(lst, key, val) == <<[id |-> NewId(lst, key), key |-> key, val |-> val]>> \o lst

\* std::list::erase(it)
ListErase(lst, it) == SelectSeq(lst, LAMBDA e : e.id # it)

\* ChainErase with the reference left in the chain.
ChainErase_kept(chain, it) == chain

\* std::list<ElemIter>::erase(std::find(begin, end, it)): the first position
\* of the chain holding `it` is removed (erase(end()) is not reached: find
\* has taken `it` from this chain).
ChainErase(chain, it) ==
    IF \E i \in 1 .. Len(chain) : chain[i] = it
    THEN LET p == CHOOSE i \in 1 .. Len(chain) :
                     chain[i] = it /\ \A j \in 1 .. i - 1 : chain[j] # it
         IN  SubSeq(chain, 1, p - 1) \o SubSeq(chain, p + 1, Len(chain))
    ELSE chain

\* std::copy(first, last, std::front_inserter(dst))
RECURSIVE CopyFrontInserter(_, _)
CopyFrontInserter(src, dst) ==
    IF src = <<>> THEN dst
    ELSE CopyFrontInserter(Tail(src), PushFront(dst, Head(src).key, Head(src).val))

\* ------------------------------------------------------- private members
\* size_t bucketId(const KeyType &key) const, for the bucket array `tbl`;
\* buckets are numbered from 0, TLA+ sequences from 1.
bucketId(tbl, key) == hasher(key) % Len(tbl)

Chain(t, id) == t.table[id + 1]

\* The loop of initBuckets with push_back in place of push_front.
RECURSIVE FillBuckets_pushBack(_, _)
FillBuckets_pushBack(tbl, rest) ==
    IF rest = <<>> THEN tbl
    ELSE LET id == bucketId(tbl, Head(rest).key)
         IN  FillBuckets_pushBack([tbl EXCEPT ![id + 1] = @ \o <<Head(rest).id>>],
                                  Tail(rest))

\* The loop of initBuckets over the record store, front to back.
RECURSIVE FillBuckets(_, _)
FillBuckets(tbl, rest) ==
    IF rest = <<>> THEN tbl
    ELSE LET id == bucketId(tbl, Head(rest).key)
         IN  FillBuckets([tbl EXCEPT ![id + 1] = <<Head(rest).id>> \o @], Tail(rest))

\* initBuckets whose loop starts one entry late.
initBuckets_skipFirst(t, tableSize) ==
    [t EXCEPT !.table =
        FillBuckets([i \in 1 .. Max(tableSize, 1) |-> <<>>],
                    IF t.all = <<>> THEN <<>> ELSE Tail(t.all))]

\* initBuckets whose loop walks the record store from back to front.
initBuckets_backToFront(t, tableSize) ==
    [t EXCEPT !.table =
        FillBuckets([i \in 1 .. Max(tableSize, 1) |-> <<>>],
                    [i \in 1 .. Len(t.all) |-> t.all[Len(t.all) + 1 - i]])]

\* initBuckets that forgets table.clear(): the first chains keep their
\* references.
initBuckets_noClear(t, tableSize) ==
    [t EXCEPT !.table =
        FillBuckets([i \in 1 .. Max(tableSize, 1) |->
                        IF i <= Len(t.table) THEN t.table[i] ELSE <<>>], t.all)]

\* void initBuckets(size_t tableSize)
initBuckets(t, tableSize) ==
    [t EXCEPT !.table =
        FillBuckets([i \in 1 .. Max(tableSize, 1) |-> <<>>], t.all)]

\* resizeIfNecessary that waits until allSize exceeds twice the capacity.
resizeIfNecessary_late(t) ==
    IF t.allSize > RESIZE_RATIO * Len(t.table)
    THEN initBuckets(t, RESIZE_RATIO * Len(t.table))
    ELSE t

\* resizeIfNecessary that rehashes by moving the entries into a new list.
resizeIfNecessary_relocate(t) ==
    IF t.allSize > Len(t.table)
    THEN initBuckets([t EXCEPT !.all = CopyFrontInserter(t.all, <<>>)],
                     RESIZE_RATIO * Len(t.table))
    ELSE t

\* resizeIfNecessary that doubles as soon as allSize reaches the capacity.
resizeIfNecessary_atLoad(t) ==
    IF t.allSize >= Len(t.table)
    THEN initBuckets(t, RESIZE_RATIO * Len(t.table))
    ELSE t

\* void resizeIfNecessary()
resizeIfNecessary(t) ==
    IF t.allSize > Len(t.table)
    THEN initBuckets(t, RESIZE_RATIO * Len(t.table))
    ELSE t

\* -------------------------------------------------------- public members
\* find that gives up after the first reference of the chain.
find_firstOnly(t, key) ==
    LET chain == Chain(t, bucketId(t.table, key))
    IN  IF chain # <<>> /\ First(t.all, chain[1]) = key THEN chain[1] ELSE End

\* iterator find(const KeyType &key)
find(t, key) ==
    LET chain == Chain(t, bucketId(t.table, key))
        hits  == {i \in 1 .. Len(chain) : First(t.all, chain[i]) = key}
    IN  IF hits = {} THEN End
        ELSE chain[CHOOSE i \in hits : \A j \in hits : i <= j]

\* explicit HashMap(Hash custom_hasher = Hash())
HashMapDefault == [all |-> <<>>, allSize |-> 0, table |-> <<<<>>>>]

\* HashMap(ForwardIterator begin, ForwardIterator end, Hash)
HashMapRange(input) ==
    LET lst == CopyFrontInserter(input, <<>>)
        t   == [all |-> lst, allSize |-> Len(lst), table |-> <<>>]
    IN  initBuckets(t, RESIZE_RATIO * t.allSize)

\* HashMap(std::initializer_list<KeyVal> elements, Hash)
HashMapList(elements) ==
    LET lst == CopyFrontInserter(elements, <<>>)
        t   == [all |-> lst, allSize |-> Len(lst), table |-> <<>>]
    IN  initBuckets(t, RESIZE_RATIO * t.allSize)

\* HashMap(const HashMap &other)
HashMapCopy(other) ==
    LET lst == CopyFrontInserter(other.all, <<>>)
        t   == [all |-> lst, allSize |-> Len(lst), table |-> <<>>]
    IN  initBuckets(t, RESIZE_RATIO * t.allSize)

\* operator= that takes its argument by reference and refills from it.
operatorAssign_byReference(t, arg) ==
    LET lst == CopyFrontInserter(arg.all, <<>>)
        t2  == [t EXCEPT !.all = lst, !.allSize = Len(lst)]
    IN  initBuckets(t2, RESIZE_RATIO * t2.allSize)

\* operator= that forgets all.clear().
operatorAssign_keepOld(t, arg) ==
    LET other == HashMapCopy(arg)
        lst   == CopyFrontInserter(other.all, t.all)
        t2    == [t EXCEPT !.all = lst, !.allSize = Len(lst)]
    IN  initBuckets(t2, RESIZE_RATIO * t2.allSize)

\* HashMap &operator=(HashMap other): the by-value parameter is a copy of
\* the argument; the receiver's list is cleared and refilled from it.
operatorAssign(t, arg) ==
    LET other == HashMapCopy(arg)
        lst   == CopyFrontInserter(other.all, <<>>)
        t2    == [t EXCEPT !.all = lst, !.allSize = Len(lst)]
    IN  initBuckets(t2, RESIZE_RATIO * t2.allSize)

\* insert that overwrites the value of a present key (last-wins).
insert_overwrite(t, key, val) ==
    IF find(t, key) # End
    THEN [t EXCEPT !.all = [i \in 1 .. Len(t.all) |->
                               IF t.all[i].id = find(t, key)
                               THEN [t.all[i] EXCEPT !.val = val] ELSE t.all[i]]]
    ELSE LET id == bucketId(t.table, key)
             l2 == PushFront(t.all, key, val)
             t2 == [all     |-> l2,
                    allSize |-> t.allSize + 1,
                    table   |-> [t.table EXCEPT ![id + 1] = <<l2[1].id>> \o @]]
         IN  resizeIfNecessary(t2)

\* insert that puts the new entry at the back of the record store.
insert_pushBack(t, key, val) ==
    IF find(t, key) # End THEN t
    ELSE LET id == bucketId(t.table, key)
             e  == [id |-> NewId(t.all, key), key |-> key, val |-> val]
             t2 == [all     |-> t.all \o <<e>>,
                    allSize |-> t.allSize + 1,
                    table   |-> [t.table EXCEPT ![id + 1] = <<e.id>> \o @]]
         IN  resizeIfNecessary(t2)

\* void insert(const KeyVal &p)
insert(t, key, val) ==
    IF find(t, key) # End THEN t
    ELSE LET id == bucketId(t.table, key)
             l2 == PushFront(t.all, key, val)
             t2 == [all     |-> l2,
                    allSize |-> t.allSize + 1,
                    table   |-> [t.table EXCEPT ![id + 1] = <<l2[1].id>> \o @]]
         IN  resizeIfNecessary(t2)

\* operator[] that forgets resizeIfNecessary().
operatorIndex_noResize(t, key) ==
    IF find(t, key) # End THEN t
    ELSE LET id == bucketId(t.table, key)
             l2 == PushFront(t.all, key, DefaultValue)
         IN  [all     |-> l2,
              allSize |-> t.allSize + 1,
              table   |-> [t.table EXCEPT ![id + 1] = <<l2[1].id>> \o @]]

\* ValueType &operator[](const KeyType &key): the table afterwards ...
operatorIndex(t, key) ==
    IF find(t, key) # End THEN t
    ELSE LET id == bucketId(t.table, key)
             l2 == PushFront(t.all, key, DefaultValue)
             t2 == [all     |-> l2,
                    allSize |-> t.allSize + 1,
                    table   |-> [t.table EXCEPT ![id + 1] = <<l2[1].id>> \o @]]
         IN  resizeIfNecessary(t2)

\* ... and the node whose `second` the returned reference designates:
\* it->second when found, all.begin()->second after the insertion.
operatorIndexRef(t, key) ==
    IF find(t, key) # End THEN find(t, key)
    ELSE operatorIndex(t, key).all[1].id

\* at that answers ValueType() for an absent key instead of throwing.
at_default(t, key) ==
    IF find(t, key) # End
    THEN [kind |-> "value", val |-> Second(t.all, find(t, key))]
    ELSE [kind |-> "value", val |-> DefaultValue]

\* const ValueType &at(const KeyType &key) const
at(t, key) ==
    IF find(t, key) # End
    THEN [kind |-> "value", val |-> Second(t.all, find(t, key))]
    ELSE [kind |-> "out_of_range", val |-> NoVal]

\* erase that forgets --allSize.
erase_noDecrement(t, key) ==
    LET it == find(t, key)
    IN  IF it = End THEN t
        ELSE LET id == bucketId(t.table, key)
             IN  [all     |-> ListErase(t.all, it),
                  allSize |-> t.allSize,
                  table   |-> [t.table EXCEPT ![id + 1] = ChainErase(@, it)]]

\* void erase(const KeyType &key).  `it` is compared by std::find after
\* all.erase(it) has released its node: list iterators compare by node
\* address, which the release does not change.
erase(t, key) ==
    LET it == find(t, key)
    IN  IF it = End THEN t
        ELSE LET id == bucketId(t.table, key)
             IN  [all     |-> ListErase(t.all, it),
                  allSize |-> t.allSize - 1,
                  table   |-> [t.table EXCEPT ![id + 1] = ChainErase(@, it)]]

\* The loop of clear over the record store.
RECURSIVE ClearBuckets(_, _)
ClearBuckets(tbl, rest) ==
    IF rest = <<>> THEN tbl
    ELSE LET id == bucketId(tbl, Head(rest).key)
         IN  ClearBuckets([tbl EXCEPT ![id + 1] = <<>>], Tail(rest))

\* clear that gives the buckets back: one empty bucket is left.
clear_shrink(t) == [all |-> <<>>, allSize |-> 0, table |-> <<<<>>>>]

\* clear that empties the record store and leaves the chains alone.
clear_keepChains(t) == [all |-> <<>>, allSize |-> 0, table |-> t.table]

\* void clear()
clear(t) ==
    [all |-> <<>>, allSize |-> 0, table |-> ClearBuckets(t.table, t.all)]

\* size_t size() const
size(t) == t.allSize

\* bool empty() const
empty(t) == t.allSize = 0

\* begin() .. end(): the traversal
Traversal(t) == t.all

\* ------------------------------------------------------------- the state
VARIABLES
    m,        \* the table under test: [all, allSize, table]
    call,     \* the last public call on m: its name, arguments, result, effect;
              \* call.arg is the sequence or the table a constructor or
              \* operator= was given
    hist,     \* what has been done to m since it was constructed
    live,     \* per key, the value of its first insert since it was last absent
    order,    \* the keys of live, the one that became present last first
    peak      \* the largest size a default-constructed table has had

vars == <<m, call, hist, live, order, peak>>

NoArg == <<>>

Call(op, key, val, res, effect) ==
    [op |-> op, key |-> key, val |-> val, res |-> res, effect |-> effect,
     arg |-> NoArg]

\* A constructor call, or operator=, with the sequence or table it was given.
CallOn(op, arg, effect) ==
    [op |-> op, key |-> NoVal, val |-> NoVal, res |-> [kind |-> "void", val |-> NoVal],
     effect |-> effect, arg |-> arg]

\* What a call did to the table: nothing, a change within the same bucket
\* array, or a change with a new number of buckets.
Effect(t, t2) ==
    IF t2 = t THEN "none"
    ELSE IF Len(t2.table) # Len(t.table) THEN "resized" ELSE "changed"

NoRes == [kind |-> "void", val |-> NoVal]

\* hist = "inserts": default-constructed, then only insert (and lookups);
\*        "fresh"  : default-constructed, then insert, operator[], erase, clear;
\*        "cleared": built by a range, list, copy or assignment, then cleared,
\*                   then insert, operator[], erase, clear;
\*        "any"    : built by a range, list, copy or assignment, not cleared since.
\* live is kept while the content is known from the calls (hist # "any").
NoLive == [k \in Keys |-> NoVal]

Tracked == hist # "any"

AfterMutation == IF hist = "inserts" THEN "fresh" ELSE hist

AfterClear == IF hist = "any" THEN "cleared" ELSE AfterMutation

LiveInsert(key, val) ==
    IF Tracked /\ live[key] = NoVal THEN [live EXCEPT ![key] = val] ELSE live

LiveErase(key) == [live EXCEPT ![key] = NoVal]

OrderInsert(key) ==
    IF Tracked /\ live[key] = NoVal THEN <<key>> \o order ELSE order

OrderErase(key) == SelectSeq(order, LAMBDA k : k # key)

\* peak is kept for tables that started default-constructed, 0 otherwise.
DefaultOrigin == hist \in {"inserts", "fresh"}

PeakAfter(t2) == IF DefaultOrigin THEN Max(peak, size(t2)) ELSE 0

\* The table is constructed by one of the three constructors that take no
\* other table.
Init ==
    \/ /\ m = HashMapDefault
       /\ call = Call("HashMap", NoVal, NoVal, NoRes, "none")
       /\ hist = "inserts"
       /\ live = NoLive
       /\ order = <<>>
       /\ peak = 0
    \/ \E input \in Inputs :
        /\ m = HashMapRange(input)
        /\ call = CallOn("HashMapRange", input, "none")
        /\ hist = "any"
        /\ live = NoLive
        /\ order = <<>>
        /\ peak = 0
    \/ \E elements \in Inputs :
        /\ m = HashMapList(elements)
        /\ call = CallOn("HashMapList", elements, "none")
        /\ hist = "any"
        /\ live = NoLive
        /\ order = <<>>
        /\ peak = 0

\* HashMap copy(m); the copy is the table under test from here on.
CopyConstruct ==
    /\ m' = HashMapCopy(m)
    /\ call' = CallOn("HashMapCopy", m, Effect(m, m'))
    /\ hist' = "any"
    /\ live' = NoLive
    /\ order' = <<>>
    /\ peak' = 0

\* m = m; (the by-value parameter is a copy of m)
Assign ==
    /\ m' = operatorAssign(m, m)
    /\ call' = CallOn("operator=", m, Effect(m, m'))
    /\ hist' = "any"
    /\ live' = NoLive
    /\ order' = <<>>
    /\ peak' = 0

Insert ==
    \E key \in Keys, val \in Vals :
        /\ m' = insert(m, key, val)
        /\ call' = Call("insert", key, val, NoRes, Effect(m, m'))
        /\ hist' = hist
        /\ live' = LiveInsert(key, val)
        /\ order' = OrderInsert(key)
        /\ peak' = PeakAfter(m')

Index ==
    \E key \in Keys :
        /\ m' = operatorIndex(m, key)
        /\ call' = Call("operator[]", key, NoVal,
                        [kind |-> "ref", val |-> operatorIndexRef(m, key)], Effect(m, m'))
        /\ hist' = AfterMutation
        /\ live' = LiveInsert(key, DefaultValue)
        /\ order' = OrderInsert(key)
        /\ peak' = PeakAfter(m')

At ==
    \E key \in Keys :
        /\ m' = m
        /\ call' = Call("at", key, NoVal, at(m, key), "none")
        /\ UNCHANGED <<hist, live, order, peak>>

Find ==
    \E key \in Keys :
        /\ m' = m
        /\ call' = Call("find", key, NoVal,
                        [kind |-> "iter", val |-> find(m, key)], "none")
        /\ UNCHANGED <<hist, live, order, peak>>

Erase ==
    \E key \in Keys :
        /\ m' = erase(m, key)
        /\ call' = Call("erase", key, NoVal, NoRes, Effect(m, m'))
        /\ hist' = AfterMutation
        /\ live' = LiveErase(key)
        /\ order' = OrderErase(key)
        /\ peak' = PeakAfter(m')

Clear ==
    /\ m' = clear(m)
    /\ call' = Call("clear", NoVal, NoVal, NoRes, Effect(m, m'))
    /\ hist' = AfterClear
    /\ live' = NoLive
    /\ order' = <<>>
    /\ peak' = PeakAfter(m')

Next ==
    \/ CopyConstruct
    \/ Assign
    \/ Insert
    \/ Index
    \/ At
    \/ Find
    \/ Erase
    \/ Clear

Spec == Init /\ [][Next]_vars

\* ------------------------------------------------------------ vocabulary
\* Key `key` has an entry in the record store.
Present(t, key) == \E i \in 1 .. Len(t.all) : t.all[i].key = key

Count(t, key) == Cardinality({i \in 1 .. Len(t.all) : t.all[i].key = key})

Capacity(t) == Len(t.table)

RemoveAt(s, i) == SubSeq(s, 1, i - 1) \o SubSeq(s, i + 1, Len(s))

Refs(t) == {<<b, p>> : b \in 1 .. Len(t.table), p \in 1 .. Len(t.all) + 1}

\* Table invariants 1, 2 and 4 of the data model: every entry is referenced
\* once, from the chain of its bucket; every reference designates an entry;
\* allSize is the record-store length.
WellFormed(t) ==
    /\ t.allSize = Len(t.all)
    /\ Len(t.table) >= 1
    /\ \A i \in 1 .. Len(t.all) :
           Cardinality({r \in Refs(t) : r[2] <= Len(t.table[r[1]])
                                        /\ t.table[r[1]][r[2]] = t.all[i].id}) = 1
    /\ \A b \in 1 .. Len(t.table) : \A p \in 1 .. Len(t.table[b]) :
           /\ Valid(t.all, t.table[b][p])
           /\ hasher(First(t.all, t.table[b][p])) % Len(t.table) = b - 1

\* The pairs a traversal from begin() to end() visits, in order.
Visited(t) == [i \in 1 .. Len(Traversal(t)) |->
                  [key |-> Traversal(t)[i].key, val |-> Traversal(t)[i].val]]

\* Two tables with the same size, capacity, traversal and, where the bucket
\* of a key is defined, the same find and at outcome for every key.
Equivalent(t1, t2) ==
    /\ size(t1) = size(t2)
    /\ Capacity(t1) = Capacity(t2)
    /\ Visited(t1) = Visited(t2)
    /\ Capacity(t1) >= 1 =>
           \A key \in Keys :
               /\ (find(t1, key) = End) = (find(t2, key) = End)
               /\ First(t1.all, find(t1, key)) = First(t2.all, find(t2, key))
               /\ Second(t1.all, find(t1, key)) = Second(t2.all, find(t2, key))
               /\ at(t1, key) = at(t2, key)

\* The positions of the pairs of `input` whose key is `key`.
Occurrences(input, key) == {i \in 1 .. Len(input) : input[i].key = key}

FirstOccurrence(input, key) ==
    CHOOSE i \in Occurrences(input, key) : \A j \in Occurrences(input, key) : i <= j

LastOccurrence(input, key) ==
    CHOOSE i \in Occurrences(input, key) : \A j \in Occurrences(input, key) : i >= j

\* The last call ran initBuckets: a constructor, operator=, or an insert or
\* operator[] that resized.
Rebuilt ==
    \/ call.op \in {"HashMap", "HashMapRange", "HashMapList", "HashMapCopy", "operator="}
    \/ call.effect = "resized"

\* The smallest of p, 2p, 4p, ... that is >= n.
RECURSIVE DoubledUpTo(_, _)
DoubledUpTo(p, n) == IF p >= n THEN p ELSE DoubledUpTo(2 * p, n)

\* find and at agree with `live` on every key.
MatchesLive(t) ==
    \A key \in Keys :
        IF live[key] # NoVal
        THEN /\ find(t, key) # End
             /\ First(t.all, find(t, key)) = key
             /\ Second(t.all, find(t, key)) = live[key]
             /\ at(t, key) = [kind |-> "value", val |-> live[key]]
        ELSE /\ find(t, key) = End
             /\ at(t, key).kind = "out_of_range"

\* ------------------------------------- the revision of src/unnamed/part_000
\* part_000 is the same class with the private members bucket_id, resize and
\* resize_if_necessary and with other constructors and operator=.  Its
\* insert, operator[], at, find, erase and clear are the statements of the
\* members modelled above (resize_if_necessary doubles, as resizeIfNecessary
\* does), so the operators above stand for them.  all_size is the field
\* allSize of the table record.

\* void resize(size_t table_size): no lower limit on table_size.
resize(t, table_size) ==
    [t EXCEPT !.table = FillBuckets([i \in 1 .. table_size |-> <<>>], t.all)]

\* The while loop of the range constructor: all.push_front(*begin).
RECURSIVE PushFrontAll(_, _)
PushFrontAll(src, dst) ==
    IF src = <<>> THEN dst
    ELSE PushFrontAll(Tail(src), PushFront(dst, Head(src).key, Head(src).val))

\* std::copy(elements.begin(), elements.end(), std::back_inserter(all))
RECURSIVE CopyBackInserter(_, _)
CopyBackInserter(src, dst) ==
    IF src = <<>> THEN dst
    ELSE CopyBackInserter(Tail(src),
             dst \o <<[id  |-> NewId(dst, Head(src).key),
                       key |-> Head(src).key, val |-> Head(src).val]>>)

\* explicit HashMap(Hash custom_hasher = Hash())
Part000Default == resize([all |-> <<>>, allSize |-> 0, table |-> <<>>], 1)

\* HashMap(ForwardIterator begin, ForwardIterator end, Hash)
Part000Range(input) ==
    LET lst == PushFrontAll(input, <<>>)
        t   == [all |-> lst, allSize |-> Len(lst), table |-> <<>>]
    IN  resize(t, 2 * t.allSize)

\* HashMap(std::initializer_list<KeyVal> elements, Hash)
Part000List(elements) ==
    LET lst == CopyBackInserter(elements, <<>>)
        t   == [all |-> lst, allSize |-> Len(elements), table |-> <<>>]
    IN  resize(t, 2 * t.allSize)

\* The inner loop of the copy constructor and of operator= over one chain
\* of the source: all.push_front(*it); table[id].push_front(all.begin()).
RECURSIVE CopyChain(_, _, _, _)
CopyChain(src, chain, t, id) ==
    IF chain = <<>> THEN t
    ELSE LET e  == src[Node(src, Head(chain))]
             l2 == PushFront(t.all, e.key, e.val)
         IN  CopyChain(src, Tail(chain),
                       [t EXCEPT !.all = l2,
                                 !.table = [t.table EXCEPT ![id + 1] = <<l2[1].id>> \o @]],
                       id)

\* The outer loop, over the buckets id, id + 1, ... of the source.
RECURSIVE CopyBuckets(_, _, _)
CopyBuckets(other, t, id) ==
    IF id >= Len(other.table) THEN t
    ELSE CopyBuckets(other, CopyChain(other.all, other.table[id + 1], t, id), id + 1)

\* HashMap(const HashMap &other)
Part000Copy(other) ==
    CopyBuckets(other,
                [all |-> <<>>, allSize |-> other.allSize,
                 table |-> [i \in 1 .. Len(other.table) |-> <<>>]],
                0)

\* HashMap &operator=(HashMap other): ++all_size once per copied entry.
Part000OperatorAssign(t, arg) ==
    LET other == Part000Copy(arg)
        t2    == CopyBuckets(other,
                             [all |-> <<>>, allSize |-> 0,
                              table |-> [i \in 1 .. Len(other.table) |-> <<>>]],
                             0)
    IN  [t2 EXCEPT !.allSize = Len(t2.all)]

\* hasher(key) % table.size() with table.size() = 0 is undefined: the
\* division traps, or it yields some number and the access to table[id]
\* of the empty vector is out of bounds.
UndefinedOutcomes == {"trap", "out_of_bounds"}

Defined == call.res.kind \notin UndefinedOutcomes

InitPart000 ==
    \/ /\ m = Part000Default
       /\ call = Call("HashMap", NoVal, NoVal, NoRes, "none")
       /\ hist = "inserts"
       /\ live = NoLive
       /\ order = <<>>
       /\ peak = 0
    \/ \E input \in Inputs :
        /\ m = Part000Range(input)
        /\ call = CallOn("HashMapRange", input, "none")
        /\ hist = "any"
        /\ live = NoLive
        /\ order = <<>>
        /\ peak = 0
    \/ \E elements \in Inputs :
        /\ m = Part000List(elements)
        /\ call = CallOn("HashMapList", elements, "none")
        /\ hist = "any"
        /\ live = NoLive
        /\ order = <<>>
        /\ peak = 0

\* HashMap copy(m); the copy is the table under test from here on.
Part000CopyConstruct ==
    /\ Defined
    /\ m' = Part000Copy(m)
    /\ call' = CallOn("HashMapCopy", m, Effect(m, m'))
    /\ hist' = "any"
    /\ live' = NoLive
    /\ order' = <<>>
    /\ peak' = 0

\* m = m;
Part000Assign ==
    /\ Defined
    /\ m' = Part000OperatorAssign(m, m)
    /\ call' = CallOn("operator=", m, Effect(m, m'))
    /\ hist' = "any"
    /\ live' = NoLive
    /\ order' = <<>>
    /\ peak' = 0

\* The members that compute bucket_id(key), on a table that has buckets.
Part000Keyed ==
    /\ Defined
    /\ Capacity(m) >= 1
    /\ (Insert \/ Index \/ At \/ Find \/ Erase)

\* clear() computes bucket_id once per entry: never on a table of no buckets.
Part000Clear ==
    /\ Defined
    /\ Clear

\* insert, operator[], at, find or erase on a table of no buckets.
Part000ModuloZero ==
    /\ Defined
    /\ Capacity(m) = 0
    /\ \E op \in {"insert", "operator[]", "at", "find", "erase"}, key \in Keys,
          outcome \in UndefinedOutcomes :
            call' = Call(op, key, NoVal, [kind |-> outcome, val |-> NoVal], "none")
    /\ UNCHANGED <<m, hist, live, order, peak>>

NextPart000 ==
    \/ Part000CopyConstruct
    \/ Part000Assign
    \/ Part000Keyed
    \/ Part000Clear
    \/ Part000ModuloZero

SpecPart000 == InitPart000 /\ [][NextPart000]_vars

\* ------------------------------------------- assignment between two tables
\* What the receiver of an assignment was constructed from: nothing, or
\* one pair.
Receivers == {input \in Inputs : Len(input) <= 1}

\* HashMap a(first, last); a = m; the receiver a, which had a content of its
\* own, is the table under test from here on.  call.effect is the effect on
\* the receiver.
AssignInto ==
    \E input \in Receivers :
        LET a == HashMapRange(input)
        IN  /\ m' = operatorAssign(a, m)
            /\ call' = CallOn("operator=", m, Effect(a, m'))
            /\ hist' = "any"
            /\ live' = NoLive
            /\ order' = <<>>
            /\ peak' = 0

NextAssign ==
    \/ AssignInto
    \/ Insert
    \/ Erase

SpecAssign == Init /\ [][NextAssign]_vars

\* ------------------------------------------ assignment that runs out of memory
\* The places of a = b at which an allocation can throw std::bad_alloc, for
\* a source of n entries: the construction of the by-value parameter; the
\* j-th push_front of std::copy into the cleared list; table.resize in
\* initBuckets; the j-th push_front on a chain in initBuckets.
FailurePoints(n) ==
    {[at |-> "parameter", j |-> 0], [at |-> "resize", j |-> 0]}
        \cup [at : {"copy", "index"}, j : 1 .. n]

\* The receiver `t` when operator= leaves by the exception thrown at
\* `point`.  The parameter is constructed before the body runs; the body
\* does all.clear(), refills the list, sets allSize, and initBuckets does
\* table.clear(), table.resize(...) and fills the chains.
operatorAssignThrows(t, arg, point) ==
    LET other == HashMapCopy(arg)
        lst   == CopyFrontInserter(other.all, <<>>)
        t2    == [t EXCEPT !.all = lst, !.allSize = Len(lst)]
        n     == Max(RESIZE_RATIO * t2.allSize, 1)
    IN  CASE point.at = "parameter" -> t
          [] point.at = "copy" ->
                [t EXCEPT !.all = CopyFrontInserter(SubSeq(other.all, 1, point.j - 1), <<>>)]
          [] point.at = "resize" -> [t2 EXCEPT !.table = <<>>]
          [] point.at = "index" ->
                [t2 EXCEPT !.table = FillBuckets([i \in 1 .. n |-> <<>>],
                                                 SubSeq(lst, 1, point.j - 1))]

NoThrow == call.res.kind # "bad_alloc"

\* HashMap a(first, last); a = m; throws.  The receiver a is the table
\* under test from here on; call.arg keeps what it was before the call
\* (into) and the source (from).  table.resize allocates only when it
\* asks for more buckets than the vector had.
AssignThrows ==
    /\ NoThrow
    /\ \E input \in Receivers, point \in FailurePoints(size(m)) :
        LET a == HashMapRange(input)
        IN  /\ point.at = "resize" =>
                   Max(RESIZE_RATIO * size(m), 1) > Capacity(a)
            /\ m' = operatorAssignThrows(a, m, point)
            /\ call' = [op |-> "operator=", key |-> NoVal, val |-> NoVal,
                        res |-> [kind |-> "bad_alloc", val |-> NoVal],
                        effect |-> Effect(a, m'),
                        arg |-> [into |-> a, from |-> m, point |-> point]]
            /\ hist' = "any"
            /\ live' = NoLive
            /\ order' = <<>>
            /\ peak' = 0

\* The calls before the assignment; after the exception the run ends.
CallsBeforeThrow ==
    /\ NoThrow
    /\ (Insert \/ Erase)

NextAssignThrows ==
    \/ AssignThrows
    \/ CallsBeforeThrow

SpecAssignThrows == Init /\ [][NextAssignThrows]_vars

\* ----------------------------------------------------------------- claims

\* C1: in every reachable state the record store holds at most one entry
\* for any given key.
C1_Uniqueness == \A key \in Keys : Count(m, key) <= 1

\* C2: insert(k, v) of a present key leaves the whole table unchanged;
\* insert(k, v) of an absent key adds exactly the entry (k, v) at the front
\* of the traversal order and increases size by exactly 1.
C2_InsertFirstWins ==
    [][call'.op = "insert" =>
        IF Present(m, call'.key)
        THEN m' = m
        ELSE /\ Len(m'.all) = Len(m.all) + 1
             /\ m'.all[1].key = call'.key
             /\ m'.all[1].val = call'.val
             /\ Tail(m'.all) = m.all
             /\ size(m') = size(m) + 1]_vars

\* An insert of a present key with another value has just left the table
\* as it was, the stored value being the earlier one.
C2_Witness ==
    /\ call.op = "insert"
    /\ call.effect = "none"
    /\ Len(m.all) >= 2
    /\ m.all[1].key # call.key
    /\ Count(m, call.key) = 1
    /\ at(m, call.key).val # call.val

\* C3: from a default-constructed table, after insert, erase and clear, a
\* key inserted and not since erased or cleared is found by find and at
\* with the value of its first insert since it was last absent, and find
\* returns end() for every other key.
C3_RoundTrip == hist \in {"inserts", "fresh"} => MatchesLive(m)

\* A key was inserted twice with different values, another key is absent
\* after an erase or clear, and the table has grown.
C3_Witness ==
    /\ hist = "fresh"
    /\ call.op = "insert"
    /\ live[call.key] # NoVal
    /\ live[call.key] # call.val
    /\ \E key \in Keys : live[key] = NoVal
    /\ Capacity(m) >= 2

\* C4: size() is the number of entries a traversal yields, empty() holds
\* exactly when that number is 0, and for a table that started
\* default-constructed size() is the number of distinct keys inserted and
\* not since erased or cleared.
C4_SizeConsistency ==
    /\ size(m) = Len(Traversal(m))
    /\ empty(m) <=> Len(Traversal(m)) = 0
    /\ hist \in {"inserts", "fresh"} =>
           size(m) = Cardinality({key \in Keys : live[key] # NoVal})

\* An erase has just removed one of two entries.
C4_Witness ==
    /\ hist = "fresh"
    /\ call.op = "erase"
    /\ call.effect # "none"
    /\ size(m) = 1
    /\ Capacity(m) = 2

\* C5: after every insertion into a default-constructed table, the ones
\* that trigger the doubling rebuild included, every key inserted so far is
\* found with its value and has exactly one entry, and no other key has one.
C5_ResizeCorrectness ==
    hist = "inserts" =>
        \A key \in Keys :
            IF live[key] # NoVal
            THEN /\ Count(m, key) = 1
                 /\ find(m, key) # End
                 /\ Second(m.all, find(m, key)) = live[key]
            ELSE Count(m, key) = 0

\* An insertion has just pushed size above the capacity, which doubled.
C5_Witness ==
    /\ hist = "inserts"
    /\ call.op = "insert"
    /\ call.effect = "resized"
    /\ size(m) >= 2
    /\ Capacity(m) = 2 * (size(m) - 1)

\* C6: after erase(k) the key is absent, find(k) returns end() (whence a
\* second erase(k) is a no-op), from every reachable table state.
C6_EraseIdempotence == call.op = "erase" => find(m, call.key) = End

\* C7: erase(k) of a present key removes exactly one entry, of key k, from
\* the record store and exactly one reference, to that entry, from the
\* chain of bucket hash(k) mod B, decreases size by exactly 1 and leaves the
\* other entries, their order, the other chains and B as they were;
\* erase(k) of an absent key changes nothing.
C7_EraseFrame ==
    [][call'.op = "erase" =>
        LET b == (hasher(call'.key) % Capacity(m)) + 1
        IN  IF Present(m, call'.key)
            THEN \E i \in 1 .. Len(m.all) :
                   /\ m.all[i].key = call'.key
                   /\ m'.all = RemoveAt(m.all, i)
                   /\ size(m') = size(m) - 1
                   /\ Capacity(m') = Capacity(m)
                   /\ \A j \in 1 .. Capacity(m) : j # b => m'.table[j] = m.table[j]
                   /\ \E p \in 1 .. Len(m.table[b]) :
                        /\ m.table[b][p] = m.all[i].id
                        /\ m'.table[b] = RemoveAt(m.table[b], p)
            ELSE m' = m]_vars

\* An erase has just removed an entry whose chain held another reference.
C7_Witness ==
    /\ call.op = "erase"
    /\ call.effect # "none"
    /\ Len(m.table[(hasher(call.key) % Capacity(m)) + 1]) >= 1
    /\ hist = "fresh"

\* C8: at(k) returns the stored value of k when k is present; when k is
\* absent it fails with std::out_of_range; in both cases the table is left
\* as it was.  No other operation fails.
C8_At ==
    /\ [][call'.op = "at" =>
            /\ m' = m
            /\ IF Present(m, call'.key)
               THEN /\ call'.res.kind = "value"
                    /\ \E i \in 1 .. Len(m.all) :
                         m.all[i].key = call'.key /\ m.all[i].val = call'.res.val
               ELSE call'.res = [kind |-> "out_of_range", val |-> NoVal]]_vars
    /\ [](call.res.kind = "out_of_range" => call.op = "at")

\* at has just failed on a table that holds another key in the bucket of
\* the key asked for.
C8_Witness ==
    /\ call.op = "at"
    /\ call.res.kind = "out_of_range"
    /\ Len(m.table[(hasher(call.key) % Capacity(m)) + 1]) >= 1

\* C9: operator[](k) of a present key changes nothing; of an absent key it
\* adds exactly the entry (k, ValueType()) at the front, increases size by
\* 1 and doubles B exactly when the new size exceeds B; in both cases the
\* returned reference designates an entry of the table whose key is k.
C9_IndexedAccess ==
    [][call'.op = "operator[]" =>
        /\ Valid(m'.all, call'.res.val)
        /\ First(m'.all, call'.res.val) = call'.key
        /\ IF Present(m, call'.key)
           THEN m' = m
           ELSE /\ m'.all[1].key = call'.key
                /\ m'.all[1].val = DefaultValue
                /\ call'.res.val = m'.all[1].id
                /\ Tail(m'.all) = m.all
                /\ size(m') = size(m) + 1
                /\ Capacity(m') = IF size(m') > Capacity(m)
                                  THEN 2 * Capacity(m) ELSE Capacity(m)]_vars

\* operator[] has just created an entry and that insertion doubled B.
C9_Witness ==
    /\ call.op = "operator[]"
    /\ call.effect = "resized"
    /\ size(m) >= 2
    /\ call.res.val = m.all[1].id
    /\ Second(m.all, call.res.val) = DefaultValue

\* C10: after clear() size() is 0, empty() holds, the traversal and every
\* bucket chain are empty and B is what it was; the table that inserts
\* build afterwards satisfies the table invariants and its keys are found.
C10_Clear ==
    /\ [][call'.op = "clear" =>
            /\ size(m') = 0
            /\ empty(m')
            /\ Traversal(m') = <<>>
            /\ \A b \in 1 .. Capacity(m') : m'.table[b] = <<>>
            /\ Capacity(m') = Capacity(m)]_vars
    /\ [](hist = "cleared" =>
            /\ WellFormed(m)
            /\ MatchesLive(m)
            /\ \A key \in Keys : Count(m, key) <= 1
            /\ size(m) = Cardinality({key \in Keys : live[key] # NoVal}))

\* A table built from a range of two pairs was cleared, two keys were
\* inserted into it, and it has the four buckets it was built with.
C10_Witness ==
    /\ hist = "cleared"
    /\ call.op = "insert"
    /\ call.effect # "none"
    /\ size(m) = 2
    /\ Capacity(m) = 4

\* C11: across insert, operator[], erase, clear, find and at the capacity B
\* changes only in an insert or operator[] that adds an entry and leaves
\* size > B, and then it becomes exactly 2 * B in that same call; an insert
\* of a present key, erase, clear, find and at leave B alone, and B never
\* decreases.
C11_ResizePolicy ==
    [][call'.op \in {"insert", "operator[]", "erase", "clear", "find", "at"} =>
        LET B     == Capacity(m)
            added == /\ call'.op \in {"insert", "operator[]"}
                     /\ ~Present(m, call'.key)
                     /\ size(m') = size(m) + 1
        IN  /\ Capacity(m') >= B
            /\ Capacity(m') # B => added /\ size(m') > B
            /\ added /\ size(m') > B => Capacity(m') = 2 * B
            /\ Capacity(m') \in {B, 2 * B}]_vars

\* An operator[] on an absent key made the size exceed the one bucket of a
\* table, which has two buckets afterwards.
C11_Witness ==
    /\ call.op = "operator[]"
    /\ call.effect = "resized"
    /\ size(m) = 2
    /\ Capacity(m) = 2

\* C12: a default-constructed table has size 0 and capacity 1; a table
\* constructed from a range or a list of n pairs has capacity max(2 * n, 1);
\* the capacity is never 0, also for an empty range or list and for the
\* copies and assignments of such a table.
C12_ConstructionCapacity ==
    /\ call.op = "HashMap" => size(m) = 0 /\ Capacity(m) = 1
    /\ call.op \in {"HashMapRange", "HashMapList"} =>
           Capacity(m) = Max(2 * Len(call.arg), 1)
    /\ Capacity(m) >= 1

\* C13: a copy-constructed table has the size of its source and, for every
\* key, the find and at outcome of its source: found or not found, the
\* entry's key and value, or out_of_range.
C13_CopyContent ==
    call.op = "HashMapCopy" =>
        /\ size(m) = size(call.arg)
        /\ \A key \in Keys :
               /\ (find(m, key) = End) = (find(call.arg, key) = End)
               /\ First(m.all, find(m, key)) = First(call.arg.all, find(call.arg, key))
               /\ Second(m.all, find(m, key)) = Second(call.arg.all, find(call.arg, key))
               /\ at(m, key) = at(call.arg, key)

C15_CopyOrder == call.op = "HashMapCopy" => Visited(m) = Visited(call.arg)

\* C16: a table that started default-constructed is traversed from the
\* most recently inserted surviving key to the least recently inserted one,
\* whatever the hash values and the capacity; an insert of a present key
\* changes nothing in the traversal, and an erase leaves the other entries
\* in their relative order.
C16_TraversalOrder ==
    /\ [](hist \in {"inserts", "fresh"} =>
            [i \in 1 .. Len(Traversal(m)) |-> Traversal(m)[i].key] = order)
    /\ [][hist' \in {"inserts", "fresh"} =>
            /\ call'.op = "insert" /\ Present(m, call'.key) =>
                   Traversal(m') = Traversal(m)
            /\ call'.op = "erase" =>
                   Traversal(m') =
                       SelectSeq(Traversal(m), LAMBDA e : e.key # call'.key)]_vars

\* Key 1 was erased and inserted again, and is traversed before key 2,
\* which was inserted before that.
C16_Witness ==
    /\ hist = "fresh"
    /\ call.op = "insert"
    /\ call.effect # "none"
    /\ order = <<1, 2>>
    /\ size(m) = 2

\* C17: a table constructed from a list is equivalent to the table that the
\* range constructor of the same revision builds from the same sequence
\* (size, capacity, traversal order, find/at outcomes), repeated keys
\* included.  For the constructors of the last revision of hash_map.h:
C17_ListAsRange ==
    call.op = "HashMapList" => Equivalent(m, HashMapRange(call.arg))

\* C17, for the constructors of part_000:
C17_ListAsRangePart000 ==
    call.op = "HashMapList" => Equivalent(m, Part000Range(call.arg))

\* C18: in every reachable state every entry of the record store is
\* referenced by exactly one position of exactly one chain, every reference
\* of a chain designates an entry of the record store, and the chain that
\* holds the reference of an entry is the one numbered hash(key) mod B.
C18_BucketIndex ==
    /\ \A i \in 1 .. Len(m.all) :
           Cardinality({r \in Refs(m) : /\ r[2] <= Len(m.table[r[1]])
                                        /\ m.table[r[1]][r[2]] = m.all[i].id}) = 1
    /\ \A b \in 1 .. Capacity(m) : \A p \in 1 .. Len(m.table[b]) :
           /\ Valid(m.all, m.table[b][p])
           /\ b - 1 = hasher(First(m.all, m.table[b][p])) % Capacity(m)

\* After an insert that doubled the buckets and an erase, a table holds
\* one entry, in the chain of its bucket.
C18_Witness ==
    /\ call.op = "erase"
    /\ call.effect = "changed"
    /\ Capacity(m) = 2
    /\ size(m) = 1
    /\ \E b \in 1 .. Capacity(m) : Len(m.table[b]) = 1

C20_ChainOrderAsStore ==
    Rebuilt =>
        \A b \in 1 .. Capacity(m) : \A p, q \in 1 .. Len(m.table[b]) :
            p < q => Node(m.all, m.table[b][p]) < Node(m.all, m.table[b][q])

\* C20, amended: after a rebuild of the bucket index each chain lists its
\* entries in the reverse of the relative order they have in the record
\* store: of two entries of one chain, the one nearer the back of the
\* record store (the less recently inserted one) comes first.
C20_ChainOrderReversed ==
    Rebuilt =>
        \A b \in 1 .. Capacity(m) : \A p, q \in 1 .. Len(m.table[b]) :
            p < q => Node(m.all, m.table[b][p]) > Node(m.all, m.table[b][q])

\* An insert doubled the buckets and one rebuilt chain holds two entries,
\* the first of which is the last of the record store.
C20_Witness ==
    /\ call.op = "insert"
    /\ call.effect = "resized"
    /\ \E b \in 1 .. Capacity(m) :
           /\ Len(m.table[b]) = 2
           /\ m.table[b][1] = m.all[Len(m.all)].id

\* C21: an insert or operator[] that doubles the buckets leaves the record
\* store as it is just after the new entry was put in front: the same
\* entries with the same values in the same order, size one more than
\* before; every iterator to an entry held before the call designates the
\* same entry afterwards; and the bucket index is completely rebuilt for
\* the new capacity when the call returns.
C21_ResizeFrame ==
    [][call'.effect = "resized" /\ call'.op \in {"insert", "operator[]"} =>
        LET val == IF call'.op = "insert" THEN call'.val ELSE DefaultValue
        IN  /\ m'.all = PushFront(m.all, call'.key, val)
            /\ Tail(m'.all) = m.all
            /\ size(m') = size(m) + 1
            /\ \A it \in Ids(m.all) :
                   /\ Valid(m'.all, it)
                   /\ First(m'.all, it) = First(m.all, it)
                   /\ Second(m'.all, it) = Second(m.all, it)
            /\ Capacity(m') = RESIZE_RATIO * Capacity(m)
            /\ WellFormed(m')]_vars

\* An insert of key 2 doubled the buckets of a table that held key 1, whose
\* entry is second in the traversal afterwards.
C21_Witness ==
    /\ call.op = "insert"
    /\ call.key = 2
    /\ call.effect = "resized"
    /\ Len(m.all) = 2
    /\ m.all[2].key = 1

\* C22: when a = b fails at any step (an allocation throws), the receiver
\* holds exactly what it held before the call, and its table invariants
\* hold: it is not emptied, not partially filled, and its chains match its
\* record store.
C22_AssignAllOrNothing ==
    call.op = "operator=" /\ call.res.kind = "bad_alloc" =>
        /\ m = call.arg.into
        /\ WellFormed(m)

\* C23: in every reachable state, so after every constructor, copy,
\* assignment, insert and operator[] (with or without a resize), erase and
\* clear, size <= capacity.
C23_LoadBound == size(m) <= Capacity(m)

\* An insert that did not resize filled a table of two buckets to two
\* entries.
C23_Witness ==
    /\ call.op = "insert"
    /\ call.effect = "changed"
    /\ size(m) = 2
    /\ Capacity(m) = 2

\* C24: for a table that started default-constructed and was changed only
\* by insert, operator[], erase and clear, the capacity is the smallest
\* power of two that is >= max(1, the largest size the table has had).
C24_HighWaterMark ==
    DefaultOrigin => Capacity(m) = DoubledUpTo(1, Max(1, peak))

\* A table that has held two entries was cleared and keeps its two buckets.
C24_Witness ==
    /\ DefaultOrigin
    /\ call.op = "clear"
    /\ call.effect # "none"
    /\ peak = 2
    /\ size(m) = 0
    /\ Capacity(m) = 2

\* C25: after a = b the traversal of a visits the entries in exactly the
\* order in which the traversal of b visits them, and the capacity of a is
\* max(2 * size, 1).
C25_AssignOrder ==
    call.op = "operator=" =>
        /\ Visited(m) = Visited(call.arg)
        /\ Capacity(m) = Max(2 * size(m), 1)

\* A receiver was assigned a table of two entries with different keys and
\* has four buckets afterwards.
C25_Witness ==
    /\ call.op = "operator="
    /\ call.effect = "resized"
    /\ Len(Visited(m)) = 2
    /\ Visited(m)[1].key # Visited(m)[2].key
    /\ Capacity(m) = 4

====
